---- MODULE Spec2Model ----
(***************************************************************************)
(* Table Timer (timer-sketch.ino): the cooperative loop                    *)
(*     updateTime(); readEncoder(); updateDisplay();                       *)
(* with the blocking motor pattern triggerMotorBuzz() that updateTime      *)
(* calls on an hour rollover.  Time is in milliseconds, as millis()        *)
(* returns it.  The unsigned 32-bit millisecond counters wrap after 49.7   *)
(* days; every run of the model ends long before (MaxLoops), and every     *)
(* stored time stamp is at most the current time, so the unsigned          *)
(* differences of the code are the plain differences written here.         *)
(***************************************************************************)
EXTENDS Integers, Sequences, FiniteSets

\* ---------------------------------------------------------------- constants
FRAME_COUNT == 28
NUM_ANIMATIONS == 6
SECONDS_PER_MINUTE == 60
HALF_HOURS_PER_DAY == 48
HALF_MINUTES_PER_HOUR == 120
MILLIS_PER_SECOND == 1000
DISPLAY_UPDATE_INTERVAL_MS == 100
MOTOR_BUZZ_DURATION_MS == 70
MOTOR_PAUSE_DURATION_MS == 70
MOTOR_CYCLE_PAUSE_MS == 60
MOTOR_BUZZ_CYCLES == 3
MOTOR_BUZZ_GROUPS == 5
debounceDelay == 250
LOW == 0
HIGH == 1

\* ------------------------------------------------------------------- bounds
\* iterations of loop() in one run
MaxLoops == 4
\* encoder steps (CLK changes) and accepted button presses in one run
MaxAdjust == 2
MaxToggles == 2
\* minute advances followed by SpecMinutes
MaxAdvances == 60
\* updateDisplay calls followed by SpecDisplay
MaxCalls == 30

\* Time that one iteration of loop() takes outside triggerMotorBuzz (an input
\* of the model), charged at the end of the iteration: the sums of these
\* values put a call exactly at, just before and just after each threshold
\* of the code (100, 250 and 1000 ms).
Delays == {50, 250, 1000}

VARIABLES
  \* the sketch's globals
  hours_half, minutes_half, seconds, lastMillis,
  lastCLK, setHours, lastButtonTime,
  animation_index, last_animation, frame,
  lastDraw,          \* the static of updateDisplay
  motor,             \* level of the MOTOR pin
  \* the environment and the position of the program
  now,               \* what millis() returns
  pc,                \* the call of loop() to run next, or "buzz"
  bi,                \* inside triggerMotorBuzz: index of the next statement
  loops,             \* iterations of loop() completed
  \* observers of the run (history variables, read by no action's guard
  \* except the caps on the inputs)
  sw, delta,         \* button level read and encoder step applied in this
                     \* iteration of loop()
  adjusts, toggles,  \* encoder steps and accepted presses so far
  ticked, rolled,    \* the last updateTime call counted a second / fired the
                     \* hour rollover
  buzzes,            \* calls of triggerMotorBuzz so far
  buzzStart, buzzEnd,\* millis() at the start / end of the last buzz
  highStart, highLen, highRuns, highMs,
  buzzDraws, gap,    \* draws inside the running buzz, time between the last two
  drawnFrame, drawnAnim, \* frame index read by the last draw, selection then
  firstSel,          \* inputs and result of the first selectAnimationByTime
  m0, advances, rolls, \* SpecMinutes: start value, minute advances, rollovers
  h0, steps,         \* SpecAdjust: hours_half at the start (m0: minutes_half),
                     \* the encoder steps applied so far
  f0, calls, draws   \* SpecDisplay: frame at the start, updateDisplay calls,
                     \* calls that drew

progVars == <<hours_half, minutes_half, seconds, lastMillis, lastCLK, setHours,
              lastButtonTime, animation_index, last_animation, frame, lastDraw,
              motor>>
envVars == <<now, pc, bi, loops>>
inVars == <<sw, delta, adjusts, toggles>>
buzzObs == <<buzzes, buzzStart, buzzEnd, highStart, highLen, highRuns, highMs,
             buzzDraws, gap>>
drawObs == <<drawnFrame, drawnAnim>>
minObs == <<m0, advances, rolls, h0, steps, f0, calls, draws>>
vars == <<progVars, envVars, inVars, ticked, rolled, buzzObs, drawObs, firstSel, minObs>>

\* ------------------------------------------------------------ pure helpers

\* (variant for C10: the same conditions as an if / else-if chain, the first
\* one that holds decides)
selectAnimationElseIf(h, m, a) ==
  LET currentHour == h \div 2
      currentMinute == m \div 2
  IN IF m >= 10 THEN 0
     ELSE IF currentHour = 12 THEN 6
     ELSE IF currentHour = 16 /\ currentMinute <= 15 THEN 7
     ELSE IF currentHour >= 19 \/ currentHour < 8 THEN 8
     ELSE IF currentHour >= 8 /\ currentHour <= 9 THEN 9
     ELSE a

\* selectAnimationByTime: sequential ifs, a later one overrides an earlier
\* one; a is animation_index at the call, kept when no condition holds.
selectAnimationByTime(h, m, a) ==
  LET currentHour == h \div 2
      currentMinute == m \div 2
      a1 == IF m >= 10 THEN 0 ELSE a
      a2 == IF currentHour = 12 THEN 6 ELSE a1
      a3 == IF currentHour = 16 /\ currentMinute <= 15 THEN 7 ELSE a2
      a4 == IF currentHour >= 19 \/ currentHour < 8 THEN 8 ELSE a3
      a5 == IF currentHour >= 8 /\ currentHour <= 9 THEN 9 ELSE a4
  IN a5

\* (variant for C11: the hour step without the wrap around the day)
adjustHoursNoWrap(h, d) == h + d
\* adjustTime, the hour branch and the minute branch
adjustHours(h, d) == (h + d + HALF_HOURS_PER_DAY) % HALF_HOURS_PER_DAY

\* (variant for C12: below zero the minutes wrap to the last whole minute)
adjustMinutesWrapTo118(m, d) ==
  LET m1 == m + d
      m2 == IF m1 < 0 THEN HALF_MINUTES_PER_HOUR - 2 ELSE m1
  IN IF m2 >= HALF_MINUTES_PER_HOUR THEN 0 ELSE m2

\* (variant for C9: a step of a whole minute)
adjustMinutesWhole(m, d) ==
  LET m1 == m + 2 * d
      m2 == IF m1 < 0 THEN HALF_MINUTES_PER_HOUR - 1 ELSE m1
  IN IF m2 >= HALF_MINUTES_PER_HOUR THEN 0 ELSE m2

adjustMinutes(m, d) ==
  LET m1 == m + d
      m2 == IF m1 < 0 THEN HALF_MINUTES_PER_HOUR - 1 ELSE m1
  IN IF m2 >= HALF_MINUTES_PER_HOUR THEN 0 ELSE m2

\* (variant for C18: the advance without the wrap inside the band)
NextFrameNoWrap(f, a) == (f + 1) + (a * FRAME_COUNT)
\* (variant for C15: an advance of two frames)
NextFrameByTwo(f, a) == ((f + 2) % FRAME_COUNT) + (a * FRAME_COUNT)
\* (variant for C20: a minute step that wraps carries into the hours)
adjustTimeCarry(h, m, sh, d) ==
  IF sh THEN [hours_half |-> adjustHours(h, d), minutes_half |-> m]
  ELSE [hours_half |-> IF m + d < 0 \/ m + d >= HALF_MINUTES_PER_HOUR
                       THEN adjustHours(h, 2 * d) ELSE h,
        minutes_half |-> adjustMinutes(m, d)]

\* adjustTime(delta) on the time of day, in the mode sh (setHours)
adjustTime(h, m, sh, d) ==
  IF sh THEN [hours_half |-> adjustHours(h, d), minutes_half |-> m]
  ELSE [hours_half |-> h, minutes_half |-> adjustMinutes(m, d)]

\* the frame advance of updateDisplay and of the hour rollover
NextFrame(f, a) == ((f + 1) % FRAME_COUNT) + (a * FRAME_COUNT)

\* (variant for C13: a limit of half the interval)
DrawDueAfterHalf(t, ld) == ~(t - ld < DISPLAY_UPDATE_INTERVAL_MS \div 2)
\* the rate limit of updateDisplay: it returns early when this is false
DrawDue(t, ld) == ~(t - ld < DISPLAY_UPDATE_INTERVAL_MS)

\* updateDisplay called at time t: what it leaves in lastDraw and frame, and
\* the frame index it handed to drawBitmap
Display(t, ld, f, a) ==
  IF DrawDue(t, ld)
  THEN [drew |-> TRUE, lastDraw |-> t, frame |-> NextFrame(f, a), shown |-> f]
  ELSE [drew |-> FALSE, lastDraw |-> ld, frame |-> f, shown |-> f]

\* (variant for C14: a second counted after half a second)
SecondDueAfterHalf(t, lm) == t - lm >= MILLIS_PER_SECOND \div 2
\* updateTime: is a second boundary due, and where the boundary moves
SecondDue(t, lm) == t - lm >= MILLIS_PER_SECOND
\* (variant for C3: the boundary reset to the current time)
NextBoundaryNow(lm, t) == t
NextBoundary(lm, t) == lm + MILLIS_PER_SECOND

\* (variant for C1: the window without its last hour)
BuzzHourBefore19(h) == LET currentHour == h \div 2 IN currentHour >= 9 /\ currentHour < 19
\* the work-hours gate of the motor
BuzzHour(h) == LET currentHour == h \div 2 IN currentHour >= 9 /\ currentHour <= 19

\* (variant for C6: accepted from debounceDelay on)
PressAcceptedFromDelay(t, lb) == t - lb >= debounceDelay
\* the button is accepted when this holds
PressAccepted(t, lb) == t - lb > debounceDelay

\* (variant for C17: the counter without its wrap)
NextRotationNoWrap(la) == la + 1
\* the rotation of the hour animation
NextRotation(la) == (la % NUM_ANIMATIONS) + 1

\* (variant for C8: the rollover keeps what exceeds the hour)
CascadeKeepRemainder(h, m, s) ==
  LET s1 == s + 1
      carry == s1 >= SECONDS_PER_MINUTE
      m1 == IF carry THEN m + 2 ELSE m
      roll == m1 >= HALF_MINUTES_PER_HOUR
  IN [seconds |-> IF carry THEN 0 ELSE s1,
      minutes_half |-> IF roll THEN m1 - HALF_MINUTES_PER_HOUR ELSE m1,
      hours_half |-> IF roll THEN (h + 2) % HALF_HOURS_PER_DAY ELSE h,
      carry |-> carry,
      roll |-> roll]

\* the cascade of updateTime on the time of day, for one counted second
Cascade(h, m, s) ==
  LET s1 == s + 1
      carry == s1 >= SECONDS_PER_MINUTE
      m1 == IF carry THEN m + 2 ELSE m
      roll == m1 >= HALF_MINUTES_PER_HOUR
  IN [seconds |-> IF carry THEN 0 ELSE s1,
      minutes_half |-> IF roll THEN 0 ELSE m1,
      hours_half |-> IF roll THEN (h + 2) % HALF_HOURS_PER_DAY ELSE h,
      carry |-> carry,
      roll |-> roll]

\* ------------------------------------------------- triggerMotorBuzz, as data
RECURSIVE Repeat(_, _)
Repeat(s, n) == IF n = 0 THEN << >> ELSE s \o Repeat(s, n - 1)

\* (variant for C19: the motor is not switched off)
BuzzCycleNoLow ==
  << "high", "draw", "delayBuzz", "draw", "delayBuzz", "draw", "delayPause" >>
\* (variant for C2: one delay while the motor is on)
BuzzCycleOneDelay ==
  << "high", "draw", "delayBuzz", "low", "draw", "delayPause" >>
\* (variant for C7: no updateDisplay between the two delays)
BuzzCycleNoMidDraw ==
  << "high", "draw", "delayBuzz", "delayBuzz", "low", "draw", "delayPause" >>
\* the body of the inner loop, one statement per entry
BuzzCycle ==
  << "high", "draw", "delayBuzz", "draw", "delayBuzz", "low", "draw", "delayPause" >>
\* the body of the outer loop
BuzzGroup == Repeat(BuzzCycle, MOTOR_BUZZ_CYCLES) \o << "draw", "delayGroup" >>
BuzzProgram == Repeat(BuzzGroup, MOTOR_BUZZ_GROUPS)

DelayOf(op) ==
  CASE op = "delayBuzz" -> MOTOR_BUZZ_DURATION_MS
    [] op = "delayPause" -> MOTOR_PAUSE_DURATION_MS
    [] op = "delayGroup" -> MOTOR_CYCLE_PAUSE_MS
    [] OTHER -> 0

\* ---------------------------------------------------------------- initially
\* Hours (in half hours) at which the model starts a run that is late in an
\* hour; the rollover then leads to 08:00, 09:00, 14:00, 19:00, 20:00, 00:00.
InitHours == {14, 16, 26, 36, 38, 46}

\* what setup() and the initialisers leave, at millis() = 0
Boot ==
  /\ hours_half = 24 /\ minutes_half = 0 /\ seconds = 0
  /\ animation_index = 0 /\ last_animation = 1 /\ frame = 0
  /\ lastMillis = 0 /\ lastDraw = 0 /\ now = 0

\* The running program at the start of the iteration of loop() in which an
\* hour ends (hh:59:59, the last second boundary 1000 ms ago), with the
\* origin of millis() taken at that boundary: the selection is the one
\* selectAnimationByTime left, the frame cursor is in its band, and the last
\* draw was 100 or 50 ms ago.
LateInHour ==
  /\ hours_half \in InitHours /\ minutes_half = 118 /\ seconds = 59
  /\ animation_index = selectAnimationByTime(hours_half, minutes_half, 0)
  /\ last_animation \in {1, NUM_ANIMATIONS}
  /\ frame = animation_index * FRAME_COUNT
  /\ lastMillis = 0 /\ now = MILLIS_PER_SECOND
  /\ lastDraw \in {now - 100, now - 50}

\* The same at the end of a minute inside an hour (15:29:59): the tick that
\* is due carries into the minutes and fires no rollover.
LateInMinute ==
  /\ hours_half = 30 /\ minutes_half = 58 /\ seconds = 59
  /\ animation_index = selectAnimationByTime(hours_half, minutes_half, 0)
  /\ last_animation = 1
  /\ frame = animation_index * FRAME_COUNT
  /\ lastMillis = 0 /\ now = MILLIS_PER_SECOND
  /\ lastDraw = now - DISPLAY_UPDATE_INTERVAL_MS

InitRest ==
  /\ lastButtonTime = 0
  /\ lastCLK \in {LOW, HIGH}
  /\ setHours = FALSE
  /\ motor = LOW
  /\ bi = 0 /\ loops = 0
  /\ sw = HIGH /\ delta = 0 /\ adjusts = 0 /\ toggles = 0
  /\ ticked = FALSE /\ rolled = FALSE
  /\ buzzes = 0 /\ buzzStart = 0 /\ buzzEnd = 0
  /\ highStart = 0 /\ highLen = 0 /\ highRuns = 0 /\ highMs = 0
  /\ buzzDraws = 0 /\ gap = 0
  /\ drawnFrame = -1 /\ drawnAnim = -1
  /\ firstSel = << >>
  /\ m0 = 0 /\ advances = 0 /\ rolls = 0
  /\ h0 = 0 /\ steps = << >>
  /\ f0 = 0 /\ calls = 0 /\ draws = 0

Init ==
  /\ Boot \/ LateInHour \/ LateInMinute
  /\ pc = "updateTime"
  /\ InitRest

\* ------------------------------------------------------------------ actions
\* the time a handler takes
Elapse(t) == \E d \in Delays : now' = t + d

\* the record of the first selection
NoteSel(h, m, la, r) == IF firstSel = << >> THEN << h, m, la, r >> ELSE firstSel

\* updateTime(), up to the call of triggerMotorBuzz when there is one: what it
\* does to the program and to the observers of the run
updateTimeBody ==
  /\ pc = "updateTime"
  /\ IF SecondDue(now, lastMillis)
     THEN
       LET c == Cascade(hours_half, minutes_half, seconds)
           la == IF c.roll THEN NextRotation(last_animation) ELSE last_animation
           a1 == IF c.roll THEN la ELSE animation_index
           f1 == IF c.roll THEN NextFrame(frame, a1) ELSE frame
           dsp == IF c.roll THEN Display(now, lastDraw, f1, a1)
                  ELSE [drew |-> FALSE, lastDraw |-> lastDraw, frame |-> frame,
                        shown |-> frame]
           buzz == c.roll /\ BuzzHour(c.hours_half)
           sel == selectAnimationByTime(c.hours_half, c.minutes_half, a1)
       IN /\ lastMillis' = NextBoundary(lastMillis, now)
          /\ seconds' = c.seconds
          /\ minutes_half' = c.minutes_half
          /\ hours_half' = c.hours_half
          /\ last_animation' = la
          /\ frame' = dsp.frame
          /\ lastDraw' = dsp.lastDraw
          /\ drawnFrame' = IF dsp.drew THEN dsp.shown ELSE drawnFrame
          /\ drawnAnim' = IF dsp.drew THEN a1 ELSE drawnAnim
          /\ ticked' = TRUE
          /\ rolled' = c.roll
          /\ IF buzz
             THEN /\ animation_index' = a1
                  /\ pc' = "buzz" /\ bi' = 1
                  /\ now' = now
                  /\ buzzes' = buzzes + 1
                  /\ buzzStart' = now /\ buzzEnd' = 0
                  /\ highStart' = 0 /\ highLen' = 0 /\ highRuns' = 0 /\ highMs' = 0
                  /\ buzzDraws' = 0 /\ gap' = 0
                  /\ UNCHANGED firstSel
             ELSE /\ animation_index' = sel
                  /\ firstSel' = NoteSel(c.hours_half, c.minutes_half, la, sel)
                  /\ pc' = "readEncoder" /\ bi' = 0
                  /\ now' = now
                  /\ UNCHANGED buzzObs
     ELSE
       /\ ticked' = FALSE /\ rolled' = FALSE
       /\ pc' = "readEncoder" /\ bi' = 0
       /\ now' = now
       /\ UNCHANGED <<hours_half, minutes_half, seconds, lastMillis,
                      animation_index, last_animation, frame, lastDraw,
                      buzzObs, drawObs, firstSel>>
  /\ UNCHANGED <<lastCLK, setHours, lastButtonTime, motor, loops, inVars>>

\* the call of loop()
updateTime == updateTimeBody /\ UNCHANGED minObs

\* triggerMotorBuzz(): one statement of the pattern; after the last one
\* updateTime goes on with selectAnimationByTime and returns to loop()
triggerMotorBuzz ==
  /\ pc = "buzz"
  /\ LET op == BuzzProgram[bi]
         last == bi = Len(BuzzProgram)
         t == now + DelayOf(op)
         dsp == IF op = "draw" THEN Display(now, lastDraw, frame, animation_index)
                ELSE [drew |-> FALSE, lastDraw |-> lastDraw, frame |-> frame,
                      shown |-> frame]
         sel == selectAnimationByTime(hours_half, minutes_half, animation_index)
     IN /\ motor' = IF op = "high" THEN HIGH ELSE IF op = "low" THEN LOW ELSE motor
        /\ highStart' = IF op = "high" THEN now ELSE highStart
        /\ highRuns' = IF op = "high" /\ motor = LOW THEN highRuns + 1 ELSE highRuns
        /\ highLen' = IF op = "low" /\ motor = HIGH THEN now - highStart ELSE highLen
        /\ highMs' = IF op = "low" /\ motor = HIGH THEN highMs + (now - highStart)
                     ELSE highMs
        /\ frame' = dsp.frame
        /\ lastDraw' = dsp.lastDraw
        /\ drawnFrame' = IF dsp.drew THEN dsp.shown ELSE drawnFrame
        /\ drawnAnim' = IF dsp.drew THEN animation_index ELSE drawnAnim
        /\ buzzDraws' = IF dsp.drew THEN buzzDraws + 1 ELSE buzzDraws
        /\ gap' = IF dsp.drew /\ buzzDraws >= 1 THEN now - lastDraw ELSE gap
        /\ IF last
           THEN /\ animation_index' = sel
                /\ firstSel' = NoteSel(hours_half, minutes_half, last_animation, sel)
                /\ buzzEnd' = t
                /\ pc' = "readEncoder" /\ bi' = 0
                /\ now' = t
           ELSE /\ now' = t
                /\ bi' = bi + 1
                /\ UNCHANGED <<animation_index, firstSel, buzzEnd, pc>>
  /\ UNCHANGED <<hours_half, minutes_half, seconds, lastMillis, lastCLK, setHours,
                 lastButtonTime, last_animation, loops, inVars, ticked, rolled, buzzes,
                 buzzStart, minObs>>

\* readEncoder() called at time t, with the levels it reads on CLK, DT and SW
readEncoderBody(t) ==
  \E currentCLK \in {LOW, HIGH}, dt \in {LOW, HIGH}, button \in {LOW, HIGH} :
    LET turn == currentCLK # lastCLK
        d == IF ~turn THEN 0 ELSE IF dt # currentCLK THEN 1 ELSE -1
        press == button = LOW /\ PressAccepted(t, lastButtonTime)
        adj == IF turn THEN adjustTime(hours_half, minutes_half, setHours, d)
               ELSE [hours_half |-> hours_half, minutes_half |-> minutes_half]
    IN /\ turn => adjusts < MaxAdjust
       /\ ~turn => dt = HIGH   \* DT is read only after a change of CLK
       /\ press => toggles < MaxToggles
       /\ hours_half' = adj.hours_half
       /\ minutes_half' = adj.minutes_half
       /\ lastCLK' = currentCLK
       /\ seconds' = IF press THEN 0 ELSE seconds
       /\ setHours' = IF press THEN ~setHours ELSE setHours
       /\ lastButtonTime' = IF press THEN t ELSE lastButtonTime
       /\ sw' = button /\ delta' = d
       /\ adjusts' = IF turn THEN adjusts + 1 ELSE adjusts
       /\ toggles' = IF press THEN toggles + 1 ELSE toggles

\* the call of loop()
readEncoder ==
  /\ pc = "readEncoder"
  /\ readEncoderBody(now)
  /\ pc' = "updateDisplay"
  /\ UNCHANGED <<lastMillis, animation_index, last_animation, frame, lastDraw,
                 motor, now, bi, loops, ticked, rolled, buzzObs, drawObs, firstSel,
                 minObs>>

\* updateDisplay(), the call of loop(): what it does to the program; the
\* iteration of loop() ends with it
updateDisplayBody ==
  /\ pc = "updateDisplay"
  /\ LET dsp == Display(now, lastDraw, frame, animation_index)
     IN /\ frame' = dsp.frame
        /\ lastDraw' = dsp.lastDraw
        /\ drawnFrame' = IF dsp.drew THEN dsp.shown ELSE drawnFrame
        /\ drawnAnim' = IF dsp.drew THEN animation_index ELSE drawnAnim
  /\ sw' = HIGH /\ delta' = 0
  /\ pc' = "updateTime"
  /\ UNCHANGED <<hours_half, minutes_half, seconds, lastMillis, lastCLK, setHours,
                 lastButtonTime, animation_index, last_animation, motor, bi,
                 adjusts, toggles, ticked, rolled, buzzObs, firstSel, minObs>>

\* the call of loop(), and the time the iteration took
updateDisplay ==
  /\ updateDisplayBody
  /\ loops < MaxLoops
  /\ loops' = loops + 1
  /\ Elapse(now)

Next == updateTime \/ triggerMotorBuzz \/ readEncoder \/ updateDisplay

Spec == Init /\ [][Next]_vars

\* ------------------------------------------------ the clock left to run
\* Every start value of minutes_half at 12:mm:00, then the program left to
\* run with the encoder untouched, one iteration of loop() per second
\* boundary (iterations of 50 ms while the clock catches up after a buzz),
\* for MaxAdvances minute advances.
InitMinutes ==
  /\ m0 \in 0 .. (HALF_MINUTES_PER_HOUR - 1)
  /\ hours_half = 24 /\ minutes_half = m0 /\ seconds = 0
  /\ animation_index = 0 /\ last_animation = 1 /\ frame = 0
  /\ lastMillis = 0 /\ lastDraw = 0 /\ now = 0
  /\ lastButtonTime = 0 /\ lastCLK = HIGH /\ setHours = FALSE /\ motor = LOW
  /\ pc = "updateTime" /\ bi = 0 /\ loops = 0
  /\ sw = HIGH /\ delta = 0 /\ adjusts = 0 /\ toggles = 0
  /\ ticked = FALSE /\ rolled = FALSE
  /\ buzzes = 0 /\ buzzStart = 0 /\ buzzEnd = 0
  /\ highStart = 0 /\ highLen = 0 /\ highRuns = 0 /\ highMs = 0
  /\ buzzDraws = 0 /\ gap = 0
  /\ drawnFrame = -1 /\ drawnAnim = -1
  /\ firstSel = << >>
  /\ advances = 0 /\ rolls = 0
  /\ h0 = 0 /\ steps = << >>
  /\ f0 = 0 /\ calls = 0 /\ draws = 0

\* updateTime(), counting the minute advances and the rollovers
countSecond ==
  /\ advances < MaxAdvances
  /\ updateTimeBody
  /\ LET due == SecondDue(now, lastMillis)
         c == Cascade(hours_half, minutes_half, seconds)
     IN /\ advances' = IF due /\ c.carry THEN advances + 1 ELSE advances
        /\ rolls' = IF due /\ c.roll THEN rolls + 1 ELSE rolls
  /\ UNCHANGED <<m0, h0, steps, f0, calls, draws>>

\* readEncoder() with the encoder untouched: CLK as it was, the button up
readEncoderIdle == readEncoder /\ lastCLK' = lastCLK /\ sw' = HIGH

\* updateDisplay(), with the iteration of loop() ending at the next second
\* boundary, and after 50 ms when a boundary is already due
updateDisplayPaced ==
  /\ updateDisplayBody
  /\ now' = IF now + 50 < lastMillis + MILLIS_PER_SECOND
            THEN lastMillis + MILLIS_PER_SECOND ELSE now + 50
  /\ UNCHANGED loops

NextMinutes == countSecond \/ triggerMotorBuzz \/ readEncoderIdle \/ updateDisplayPaced

SpecMinutes == InitMinutes /\ [][NextMinutes]_vars

\* --------------------------------------------- selectAnimationByTime alone
\* every time of day and every selection before the call
InitSelect ==
  /\ hours_half \in 0 .. (HALF_HOURS_PER_DAY - 1)
  /\ minutes_half \in 0 .. (HALF_MINUTES_PER_HOUR - 1)
  /\ animation_index \in 0 .. 9
  /\ seconds = 0 /\ last_animation = 1 /\ frame = animation_index * FRAME_COUNT
  /\ lastMillis = 0 /\ lastDraw = 0 /\ now = 0
  /\ lastButtonTime = 0 /\ lastCLK = HIGH /\ setHours = FALSE /\ motor = LOW
  /\ pc = "select" /\ bi = 0 /\ loops = 0
  /\ sw = HIGH /\ delta = 0 /\ adjusts = 0 /\ toggles = 0
  /\ ticked = FALSE /\ rolled = FALSE
  /\ buzzes = 0 /\ buzzStart = 0 /\ buzzEnd = 0
  /\ highStart = 0 /\ highLen = 0 /\ highRuns = 0 /\ highMs = 0
  /\ buzzDraws = 0 /\ gap = 0
  /\ drawnFrame = -1 /\ drawnAnim = -1
  /\ firstSel = << >>
  /\ m0 = 0 /\ advances = 0 /\ rolls = 0
  /\ h0 = 0 /\ steps = << >>
  /\ f0 = 0 /\ calls = 0 /\ draws = 0

selectCall ==
  /\ pc = "select"
  /\ animation_index' = selectAnimationByTime(hours_half, minutes_half, animation_index)
  /\ pc' = "selected"
  /\ UNCHANGED <<hours_half, minutes_half, seconds, lastMillis, lastCLK, setHours,
                 lastButtonTime, last_animation, frame, lastDraw, motor, now, bi,
                 loops, inVars, ticked, rolled, buzzObs, drawObs, firstSel, minObs>>

SpecSelect == InitSelect /\ [][selectCall]_vars

\* ------------------------------------------------------- readEncoder alone
\* every time of day and both edit modes, then readEncoder called again and
\* again at one time (one second after the last accepted press)
InitAdjust ==
  /\ hours_half \in 0 .. (HALF_HOURS_PER_DAY - 1)
  /\ minutes_half \in 0 .. (HALF_MINUTES_PER_HOUR - 1)
  /\ setHours \in BOOLEAN
  /\ lastCLK \in {LOW, HIGH}
  /\ seconds = 30
  /\ animation_index = 0 /\ last_animation = 1 /\ frame = 0
  /\ lastMillis = 0 /\ lastDraw = 0 /\ now = MILLIS_PER_SECOND
  /\ lastButtonTime = 0 /\ motor = LOW
  /\ pc = "readEncoder" /\ bi = 0 /\ loops = 0
  /\ sw = HIGH /\ delta = 0 /\ adjusts = 0 /\ toggles = 0
  /\ ticked = FALSE /\ rolled = FALSE
  /\ buzzes = 0 /\ buzzStart = 0 /\ buzzEnd = 0
  /\ highStart = 0 /\ highLen = 0 /\ highRuns = 0 /\ highMs = 0
  /\ buzzDraws = 0 /\ gap = 0
  /\ drawnFrame = -1 /\ drawnAnim = -1
  /\ firstSel = << >>
  /\ m0 = minutes_half /\ advances = 0 /\ rolls = 0
  /\ h0 = hours_half /\ steps = << >>
  /\ f0 = 0 /\ calls = 0 /\ draws = 0

readEncoderCall ==
  /\ pc = "readEncoder"
  /\ readEncoderBody(now)
  /\ steps' = IF delta' # 0 THEN Append(steps, delta') ELSE steps
  /\ UNCHANGED <<lastMillis, animation_index, last_animation, frame, lastDraw,
                 motor, envVars, ticked, rolled, buzzObs, drawObs, firstSel,
                 m0, h0, advances, rolls, f0, calls, draws>>

SpecAdjust == InitAdjust /\ [][readEncoderCall]_vars

\* ----------------------------------------------------- updateDisplay alone
\* Time between two calls of updateDisplay: half the interval of the rate
\* limit and the whole interval.
DisplayPace == {50, 100}
\* positions of the frame cursor in its band at the start
StartOffsets == {0, 13, FRAME_COUNT - 1}

\* every selection, the cursor in its band, the last draw 50 or 100 ms ago;
\* then updateDisplay called again and again with the selection unchanged
InitDisplay ==
  /\ animation_index \in 0 .. 9
  /\ \E o \in StartOffsets : frame = (animation_index * FRAME_COUNT) + o
  /\ now = MILLIS_PER_SECOND
  /\ lastDraw \in {now - 100, now - 50}
  /\ hours_half = 24 /\ minutes_half = 0 /\ seconds = 0
  /\ last_animation = 1 /\ lastMillis = 0
  /\ lastButtonTime = 0 /\ lastCLK = HIGH /\ setHours = FALSE /\ motor = LOW
  /\ pc = "updateDisplay" /\ bi = 0 /\ loops = 0
  /\ sw = HIGH /\ delta = 0 /\ adjusts = 0 /\ toggles = 0
  /\ ticked = FALSE /\ rolled = FALSE
  /\ buzzes = 0 /\ buzzStart = 0 /\ buzzEnd = 0
  /\ highStart = 0 /\ highLen = 0 /\ highRuns = 0 /\ highMs = 0
  /\ buzzDraws = 0 /\ gap = 0
  /\ drawnFrame = -1 /\ drawnAnim = -1
  /\ firstSel = << >>
  /\ m0 = 0 /\ advances = 0 /\ rolls = 0
  /\ h0 = 0 /\ steps = << >>
  /\ f0 = frame /\ calls = 0 /\ draws = 0

displayCall ==
  /\ pc = "updateDisplay"
  /\ calls < MaxCalls
  /\ LET dsp == Display(now, lastDraw, frame, animation_index)
     IN /\ frame' = dsp.frame
        /\ lastDraw' = dsp.lastDraw
        /\ drawnFrame' = IF dsp.drew THEN dsp.shown ELSE drawnFrame
        /\ drawnAnim' = IF dsp.drew THEN animation_index ELSE drawnAnim
        /\ draws' = IF dsp.drew THEN draws + 1 ELSE draws
  /\ calls' = calls + 1
  /\ \E d \in DisplayPace : now' = now + d
  /\ UNCHANGED <<hours_half, minutes_half, seconds, lastMillis, lastCLK, setHours,
                 lastButtonTime, animation_index, last_animation, motor, pc, bi,
                 loops, inVars, ticked, rolled, buzzObs, firstSel,
                 m0, advances, rolls, h0, steps, f0>>

SpecDisplay == InitDisplay /\ [][displayCall]_vars

\* ---------------------------------------------------------------- the claims
LoopBoundary == pc \in {"updateTime", "readEncoder", "updateDisplay"}
InBand(f, a) == a * FRAME_COUNT <= f /\ f < (a + 1) * FRAME_COUNT

\* C1: triggerMotorBuzz is called exactly once by each hour rollover whose
\* new hour is in 9..19, by no rollover whose new hour is outside, and by no
\* other step.
C1_BuzzOncePerActiveRollover ==
  [][ /\ buzzes' \in {buzzes, buzzes + 1}
      /\ (buzzes' = buzzes + 1) <=>
           (pc = "updateTime" /\ rolled' /\ (hours_half' \div 2) \in 9..19) ]_vars

\* a rollover to 19:00 has just called the buzz
C1_Witness ==
  pc = "buzz" /\ bi = 1 /\ rolled /\ buzzes = 1 /\ hours_half \div 2 = 19

\* C2 (as claimed): a finished buzz took 2400 ms and held the motor HIGH for
\* 15 intervals of 70 ms.
C2_AsClaimed ==
  (buzzEnd > 0 /\ pc # "buzz") =>
     /\ buzzEnd - buzzStart = 2400
     /\ highRuns = 15
     /\ highLen = 70
     /\ highMs = 15 * 70

\* C2 (amended): a finished buzz took 3450 ms = 5 * (3 * 210 + 60) and held the
\* motor HIGH for 15 intervals of 140 ms each: a cycle is 140 ms ON (two delays
\* of 70 ms) and 70 ms OFF.
C2_BuzzTakes3450 ==
  /\ highLen \in {0, 140}
  /\ (buzzEnd > 0 /\ pc # "buzz") =>
       /\ buzzEnd - buzzStart = 3450
       /\ highRuns = 15
       /\ highMs = 15 * 140

C2_Witness ==
  pc = "readEncoder" /\ buzzEnd = buzzStart + 3450 /\ highRuns = 15 /\ highLen = 140
    /\ motor = LOW

\* C3 (as claimed): once a buzz has finished, the clock stays behind real time
\* by at least the duration of the buzz.
C3_AsClaimed ==
  (buzzEnd > 0 /\ pc # "buzz") => now - lastMillis >= buzzEnd - buzzStart

\* C3 (amended): the buzz itself credits no time, but every updateTime call
\* after it that finds at least 1000 ms outstanding counts one second and
\* moves the boundary by exactly 1000 ms, so the calls that follow the buzz
\* catch the time up.
C3_TicksAfterBuzzCatchUp ==
  [][ /\ (pc = "buzz" /\ pc' = "buzz") =>
            (lastMillis' = lastMillis /\ seconds' = seconds)
      /\ (pc = "updateTime" /\ buzzEnd > 0 /\ now - lastMillis >= MILLIS_PER_SECOND) =>
            (ticked' /\ lastMillis' = lastMillis + MILLIS_PER_SECOND) ]_vars

\* after a buzz the clock is again less than a second behind, with the second
\* boundary past the end of the buzz minus one second
C3_Witness ==
  /\ pc = "updateTime" /\ buzzEnd > 0
  /\ now - lastMillis < MILLIS_PER_SECOND
  /\ now - lastMillis < buzzEnd - buzzStart

\* C4 (as claimed): at every loop-iteration boundary, and so whenever loop()
\* draws, frame is in the band of animation_index.
C4_AsClaimed == LoopBoundary => InBand(frame, animation_index)

\* C5 (as claimed): a selectAnimationByTime call whose hours_half,
\* minutes_half and last_animation equal those of the first call of the run
\* leaves the same animation_index.
C5_AsClaimed ==
  (pc = "readEncoder" /\ ticked /\ firstSel # << >>
     /\ << hours_half, minutes_half, last_animation >> =
          << firstSel[1], firstSel[2], firstSel[3] >>)
  => animation_index = firstSel[4]

\* C6 (as claimed): a poll that reads the button pressed 250 ms or more after
\* an accepted press toggles setHours again and resets seconds.
C6_AsClaimed ==
  [][ (pc = "readEncoder" /\ sw' = LOW /\ toggles >= 1
         /\ now - lastButtonTime >= 250)
      => (setHours' # setHours /\ seconds' = 0) ]_vars

\* C6 (amended): a poll toggles setHours exactly when it reads the button
\* pressed more than 250 ms after the last accepted press (after millis() = 0
\* when there was none); it then resets seconds and records the time, and
\* otherwise leaves the mode and the recorded time alone.
C6_ToggleIffMoreThan250 ==
  [][ pc = "readEncoder" =>
        /\ (setHours' # setHours) <=>
             (sw' = LOW /\ now - lastButtonTime > 250)
        /\ (setHours' # setHours) =>
             (seconds' = 0 /\ lastButtonTime' = now /\ toggles' = toggles + 1)
        /\ (setHours' = setHours) =>
             (lastButtonTime' = lastButtonTime /\ toggles' = toggles) ]_vars

\* two accepted presses, the second one just now
C6_Witness ==
  pc = "updateDisplay" /\ sw = LOW /\ toggles = 2 /\ lastButtonTime = now
    /\ seconds = 0 /\ setHours = FALSE

\* C7 (as claimed): two consecutive draws inside one buzz are at most 100 ms
\* apart.
C7_AsClaimed == gap <= DISPLAY_UPDATE_INTERVAL_MS

\* C7 (amended): two consecutive draws inside one buzz are at most 140 ms
\* apart (two delays of the pattern).
C7_GapAtMost140 == gap <= 140

C7_Witness == pc = "buzz" /\ buzzDraws >= 2 /\ gap = 140

\* C8 (as claimed): from every start value, sixty minute advances bring
\* minutes_half back to it and fire one hour rollover.
C8_AsClaimed == advances = 60 => (minutes_half = m0 /\ rolls = 1)

\* C8 (amended): sixty minute advances fire exactly one hour rollover from
\* every start value; they bring minutes_half back to an even start value,
\* and to one less than an odd start value (the rollover resets to 0).
C8_SixtyAdvances ==
  advances = 60 => (rolls = 1 /\ minutes_half = m0 - (m0 % 2))

\* sixty advances from 59.5 minutes end at 59 minutes
C8_Witness == advances = 60 /\ m0 = 119 /\ minutes_half = 118 /\ rolls = 1

\* C9 (as claimed): in minute-edit mode an encoder step d changes
\* minutes_half by 2*d, wrapping.
C9_AsClaimed ==
  [][ (pc = "readEncoder" /\ ~setHours /\ delta' # 0) =>
        minutes_half' = (minutes_half + 2 * delta') % HALF_MINUTES_PER_HOUR ]_vars

\* C9 (amended): in minute-edit mode an encoder step d changes minutes_half
\* by d, one half minute, wrapping 119 -> 0 and 0 -> 119, and leaves
\* hours_half alone; only two steps make a whole minute.
C9_StepIsHalfMinute ==
  [][ (pc = "readEncoder" /\ ~setHours /\ delta' # 0) =>
        /\ minutes_half' = (minutes_half + delta') % HALF_MINUTES_PER_HOUR
        /\ hours_half' = hours_half ]_vars

\* one clockwise step in minute mode has wrapped 119 to 0
C9_Witness ==
  pc = "readEncoder" /\ delta = 1 /\ adjusts = 1 /\ toggles = 0 /\ ~setHours
    /\ minutes_half = 0

\* C10: the rules of the claim, in their order
RuleHolds(i, h, m) ==
  LET hour == h \div 2
      minute == m \div 2
  IN CASE i = 1 -> m >= 10
       [] i = 2 -> hour = 12
       [] i = 3 -> hour = 16 /\ minute <= 15
       [] i = 4 -> hour >= 19 \/ hour < 8
       [] i = 5 -> 8 <= hour /\ hour <= 9
RuleAnimation == << 0, 6, 7, 8, 9 >>
Matching(h, m) == {i \in 1 .. 5 : RuleHolds(i, h, m)}
LastMatching(h, m) == CHOOSE i \in Matching(h, m) : \A j \in Matching(h, m) : j <= i

\* C10: after selectAnimationByTime, at every time of day at which a rule
\* matches, animation_index is the animation of the last matching rule; 16:15
\* gives 7, 16:16 gives 0, 8:00 gives 9 and 19:00 gives 8.
C10_LastMatchingRuleWins ==
  pc = "selected" =>
    /\ Matching(hours_half, minutes_half) # {} =>
         animation_index = RuleAnimation[LastMatching(hours_half, minutes_half)]
    /\ (hours_half \div 2 = 16 /\ minutes_half \div 2 = 15) => animation_index = 7
    /\ (hours_half \div 2 = 16 /\ minutes_half \div 2 = 16) => animation_index = 0
    /\ (hours_half \div 2 = 8 /\ minutes_half \div 2 = 0) => animation_index = 9
    /\ (hours_half \div 2 = 19 /\ minutes_half \div 2 = 0) => animation_index = 8

\* 16:15, where rule 1 and rule 3 both match
C10_Witness ==
  pc = "selected" /\ hours_half = 32 /\ minutes_half = 30 /\ animation_index = 7

\* C11: at every loop-iteration boundary, whatever the ticks, the encoder
\* steps and the button presses so far, hours_half is in 0..47, minutes_half
\* in 0..119 and seconds in 0..59.
C11_TimeInRange ==
  LoopBoundary =>
    /\ hours_half \in 0 .. (HALF_HOURS_PER_DAY - 1)
    /\ minutes_half \in 0 .. (HALF_MINUTES_PER_HOUR - 1)
    /\ seconds \in 0 .. (SECONDS_PER_MINUTE - 1)

\* after the rollover 23:59:59 -> 00:00:00 an anticlockwise step in hour mode
\* has wrapped hours_half from 0 to 47
C11_Witness ==
  pc = "updateDisplay" /\ setHours /\ delta = -1 /\ hours_half = 47
    /\ minutes_half = 0 /\ loops >= 1

\* C12: from every time of day, in hour-edit mode and in minute-edit mode,
\* adjustTime(+1) followed by adjustTime(-1) leaves hours_half and
\* minutes_half at the values they had before, also when the first step
\* wraps (47 -> 0 half hours, 119 -> 0 half minutes).
C12_RoundTrip ==
  (steps = << 1, -1 >> /\ toggles = 0) =>
     (hours_half = h0 /\ minutes_half = m0)

\* the round trip from 59.5 minutes in minute mode: 119 -> 0 -> 119
C12_Witness ==
  steps = << 1, -1 >> /\ toggles = 0 /\ ~setHours /\ m0 = 119 /\ minutes_half = 119

\* the round trip from 23:30 in hour mode: 47 -> 0 -> 47
C12_WitnessHours ==
  steps = << 1, -1 >> /\ toggles = 0 /\ setHours /\ h0 = 47 /\ hours_half = 47

\* C13: a draw (the only change of lastDraw) sets lastDraw to the current
\* time and comes at least 100 ms after the draw before it; an updateDisplay
\* call less than 100 ms after the last draw, from loop(), from
\* triggerMotorBuzz or from the hour rollover, draws nothing and leaves
\* lastDraw and frame as they were at the call (at the rollover: as line 126
\* left frame just before the call).
C13_DrawsAtLeast100Apart ==
  [][ /\ (lastDraw' # lastDraw) =>
            (lastDraw' = now /\ now - lastDraw >= 100)
      /\ (now - lastDraw < 100 /\ pc = "updateDisplay") =>
            (lastDraw' = lastDraw /\ frame' = frame /\ drawObs' = drawObs)
      /\ (now - lastDraw < 100 /\ pc = "buzz") =>
            (lastDraw' = lastDraw /\ frame' = frame /\ drawObs' = drawObs)
      /\ (now - lastDraw < 100 /\ pc = "updateTime") =>
            /\ lastDraw' = lastDraw /\ drawObs' = drawObs
            /\ frame' = IF rolled' THEN NextFrame(frame, last_animation') ELSE frame
    ]_vars

\* loop() has drawn, then called updateDisplay 50 ms later, which drew
\* nothing, and the next call comes 100 ms after the draw
C13_Witness ==
  pc = "updateTime" /\ loops >= 2 /\ drawnFrame >= 0 /\ lastDraw > 0
    /\ now - lastDraw = 100

\* C14: an updateTime call made less than 1000 ms after the second boundary
\* changes no variable of the program; a call made 1000 ms or more after it,
\* however long after, moves the boundary by exactly 1000 ms and counts
\* exactly one second: seconds goes to seconds + 1, or from 59 to 0 with one
\* minute added, and the hour advances by at most one, only together with
\* that minute.
C14_OneSecondPerCall ==
  [][ pc = "updateTime" =>
        /\ (now - lastMillis < 1000) => (progVars' = progVars /\ ~ticked')
        /\ (now - lastMillis >= 1000) =>
              /\ ticked'
              /\ lastMillis' = lastMillis + 1000
              /\ seconds' = (seconds + 1) % 60
              /\ (seconds < 59) =>
                    (minutes_half' = minutes_half /\ hours_half' = hours_half)
              /\ (seconds = 59 /\ minutes_half + 2 < 120) =>
                    (minutes_half' = minutes_half + 2 /\ hours_half' = hours_half)
              /\ (seconds = 59 /\ minutes_half + 2 >= 120) =>
                    (minutes_half' = 0 /\ hours_half' = (hours_half + 2) % 48)
    ]_vars

\* the call after a buzz found more than two seconds outstanding and counted
\* one: a second or more is still outstanding
C14_Witness ==
  pc = "readEncoder" /\ ticked /\ ~rolled /\ buzzEnd > 0
    /\ now - lastMillis >= MILLIS_PER_SECOND

\* a call has carried 15:29:59 into 15:30:00 with no rollover
C14_WitnessMinute ==
  pc = "readEncoder" /\ ticked /\ ~rolled /\ hours_half = 30
    /\ minutes_half = 60 /\ seconds = 0 /\ lastMillis = MILLIS_PER_SECOND

\* C15 (as claimed): with the selection unchanged, after N calls of
\* updateDisplay the frame cursor is N steps further in its band.
C15_AsClaimed == frame % FRAME_COUNT = (f0 + calls) % FRAME_COUNT

\* C15 (amended): with the selection unchanged, the frame cursor is one step
\* further in its band, wrapping after FRAME_COUNT steps, for each call of
\* updateDisplay that drew; the calls that the rate limit turned away do not
\* count.  The cursor stays in the band.
C15_CursorCountsDraws ==
  /\ frame % FRAME_COUNT = (f0 + draws) % FRAME_COUNT
  /\ InBand(frame, animation_index)
  /\ draws <= calls

\* 28 draws in 30 calls have brought the cursor back to the last frame of
\* band 9, where it started
C15_Witness ==
  draws = FRAME_COUNT /\ calls = 30 /\ animation_index = 9 /\ f0 = 279 /\ frame = f0

\* the state in which updateTime has just run the rollover: at the first
\* statement of triggerMotorBuzz, or back in loop() when the hour is outside
\* the window
RolloverJustDone ==
  \/ pc = "buzz" /\ bi = 1
  \/ pc = "readEncoder" /\ ticked /\ rolled /\ ~BuzzHour(hours_half)

\* C16 (as claimed): when the rollover has run, last_animation has advanced
\* and, before any buzz, the forced updateDisplay has drawn a frame of the
\* band of the rotated animation at the time of the rollover.
C16_AsClaimed ==
  RolloverJustDone =>
    /\ last_animation \in 1 .. NUM_ANIMATIONS
    /\ lastDraw = now
    /\ drawnAnim = last_animation
    /\ InBand(drawnFrame, last_animation)

\* C17: last_animation is always in 1..6; the updateTime call that fires the
\* hour rollover moves it one position on in the cycle 1, 2, ..., 6, 1; no
\* other step changes it: no tick without a rollover, no statement of the
\* buzz, no readEncoder call (encoder step or button press), no updateDisplay.
C17_RotationOnlyOnRollover ==
  [][ /\ last_animation \in 1 .. NUM_ANIMATIONS
      /\ last_animation' \in 1 .. NUM_ANIMATIONS
      /\ (pc = "updateTime" /\ rolled') =>
            last_animation' = (IF last_animation = NUM_ANIMATIONS THEN 1
                               ELSE last_animation + 1)
      /\ ~(pc = "updateTime" /\ rolled') => last_animation' = last_animation
    ]_vars

\* the rollover to 14:00 has moved the counter from 6 to 1; the buzz and an
\* encoder step have followed and left it there
C17_Witness ==
  pc = "updateDisplay" /\ rolled /\ last_animation = 1 /\ buzzEnd > 0
    /\ delta # 0 /\ hours_half = 28

\* C18: in every reachable state frame is in 0 .. 279 (ten bands of
\* FRAME_COUNT frames), animation_index is in 0 .. 9, and every index that a
\* draw has handed to the frame table was in 0 .. 279.
C18_FrameInTable ==
  /\ frame \in 0 .. ((10 * FRAME_COUNT) - 1)
  /\ animation_index \in 0 .. 9
  /\ drawnFrame \in -1 .. ((10 * FRAME_COUNT) - 1)

\* after the rollover to 08:00 a draw has read a frame of the last band
\* (animation 9) and advanced the cursor in it
C18_Witness ==
  /\ LoopBoundary /\ hours_half = 16 /\ animation_index = 9 /\ drawnAnim = 9
  /\ drawnFrame >= 9 * FRAME_COUNT /\ frame = drawnFrame + 1

\* C19: the motor pin is LOW whenever the program is in loop() outside
\* triggerMotorBuzz (at every loop-iteration boundary and between the calls
\* of loop()): it is HIGH only inside triggerMotorBuzz, and a buzz that has
\* ended has left it LOW.
C19_MotorLowOutsideBuzz ==
  /\ motor \in {LOW, HIGH}
  /\ LoopBoundary => motor = LOW
  /\ motor = HIGH => (pc = "buzz" /\ bi > 1)

\* a buzz that switched the motor on 15 times has returned to loop() with
\* the motor off
C19_Witness ==
  pc = "updateDisplay" /\ buzzes = 1 /\ buzzEnd > buzzStart /\ highRuns = 15
    /\ motor = LOW

\* inside the buzz the motor is on
C19_WitnessHigh == pc = "buzz" /\ motor = HIGH /\ highRuns = 15

\* C20: a readEncoder call fires no hour rollover.  It never changes
\* last_animation, animation_index, frame, the motor pin or the second
\* boundary and never calls triggerMotorBuzz; an encoder step in minute mode
\* moves minutes_half by one, wrapping 119 -> 0 and 0 -> 119, and leaves
\* hours_half alone; an encoder step in hour mode leaves minutes_half alone,
\* and seconds too (seconds is reset only by a button press accepted in the
\* same call).
C20_PollFiresNoRollover ==
  [][ pc = "readEncoder" =>
        /\ last_animation' = last_animation
        /\ animation_index' = animation_index
        /\ frame' = frame
        /\ motor' = motor
        /\ lastMillis' = lastMillis
        /\ buzzes' = buzzes /\ pc' # "buzz"
        /\ (delta' # 0 /\ ~setHours) =>
              /\ hours_half' = hours_half
              /\ minutes_half' = (minutes_half + delta') % HALF_MINUTES_PER_HOUR
        /\ (delta' # 0 /\ setHours) =>
              /\ minutes_half' = minutes_half
              /\ (toggles' = toggles) => seconds' = seconds
    ]_vars

\* at 23:59:30 one clockwise step in minute mode has wrapped the minutes to 0
\* and left the hour at 23:30
C20_Witness ==
  steps = << 1 >> /\ toggles = 0 /\ ~setHours /\ m0 = 119 /\ minutes_half = 0
    /\ h0 = 47 /\ hours_half = 47 /\ seconds = 30

\* at 00:00 one anticlockwise step in minute mode has wrapped the minutes to
\* 119 and left the hour at 0
C20_WitnessDown ==
  steps = << -1 >> /\ toggles = 0 /\ ~setHours /\ m0 = 0 /\ minutes_half = 119
    /\ h0 = 0 /\ hours_half = 0

====
